---- MODULE Spec2Model ----
(***************************************************************************)
(* chrome-page-server: the Express server that keeps one Chrome instance   *)
(* (puppeteer-core) in the globals `browser` / `browserPage` and serves    *)
(* /api/status, /api/start-browser, /api/stop-browser, /api/get-markdown.  *)
(*                                                                         *)
(* Node runs one event loop: a handler runs without interruption up to its *)
(* next `await` of an I/O promise, so every action below is one such run:  *)
(* the resolution (or rejection) of the awaited promise followed by the    *)
(* code up to the next await.  Objects of puppeteer are numbered: browsers *)
(* 1..Len(browsers), pages 1..Len(pages); 0 stands for null.               *)
(***************************************************************************)
EXTENDS Integers, Sequences, FiniteSets, TLC

\* ---------------------------------------------------------------- bounds
MaxReq == 2          \* HTTP requests received in one behaviour
MaxBrowsers == 2     \* puppeteer.launch calls that may succeed
MaxLen == 3          \* characters of the longest markup handed to sanitizeHtml

Req == 1..MaxReq

\* ------------------------------------------------------------ the state
VARIABLES
  browser,       \* global `browser`: 0 (null) or a browser id
  browserPage,   \* global `browserPage`: 0 (null) or a page id
  browsers,      \* launched Chrome instances: connection state, listeners
  pages,         \* pages created by newPage(): owning browser, navigation
  inits,         \* invocations of initBrowser(), by caller
  reqs,          \* the requests being served and where each handler waits
  out,           \* the HTTP response this step sent, with the request it answers
  log,           \* the console.error line this step wrote, "" if none
  html,          \* get-markdown: `html`, the markup read from the page
  sanitizedHtml, \* get-markdown: `sanitizedHtml`
  markdown,      \* get-markdown: `markdown`
  node,          \* the element turndown hands to the image rule
  rendered       \* what the rule's replacement returned for `node`

vars == <<browser, browserPage, browsers, pages, inits, reqs, out, log,
          html, sanitizedHtml, markdown, node, rendered>>

\* A request slot that serves nothing; also: no response.
NoReq ==
  [kind |-> "none", pc |-> "idle", hasUrl |-> FALSE, url |-> <<>>,
   sanitizedUrl |-> <<>>, selector |-> "unread", b |-> 0, pg |-> 0, el |-> 0,
   nav |-> 0, at |-> "none", matched |-> "unread",
   settled |-> {}, waitBody |-> "unread", waitTime |-> 0,
   src |-> "none", content |-> 0, title |-> 0,
   resp |-> 0, body |-> "", message |-> ""]

\* The whole state as one value, so that the straight-line code of a
\* handler composes as function application.  A step starts with no
\* response sent and nothing logged.
St ==
  [browser |-> browser, browserPage |-> browserPage, browsers |-> browsers,
   pages |-> pages, inits |-> inits, reqs |-> reqs, out |-> NoReq, log |-> ""]

Set(s) ==
  /\ browser' = s.browser
  /\ browserPage' = s.browserPage
  /\ browsers' = s.browsers
  /\ pages' = s.pages
  /\ inits' = s.inits
  /\ reqs' = s.reqs
  /\ out' = s.out
  /\ log' = s.log
  /\ UNCHANGED <<html, sanitizedHtml, markdown, node, rendered>>

\* ------------------------------------------------------------- requests
\* url values of the request body.  `has` is FALSE when the body has no
\* url field (undefined); `s` is the text, a sequence of characters.
UrlSamples ==
  { <<>>, <<"a", "/">>, <<"A", ":", "/">> }

UrlInputs ==
  {[has |-> FALSE, s |-> <<>>]} \cup {[has |-> TRUE, s |-> u] : u \in UrlSamples}

Alpha == {"a", "A"}

SchemeChar == {"a", "A"}

lower(c) == IF c = "A" THEN "a" ELSE c

\* new URL(url) without a base: the text must start with a scheme, an ASCII
\* letter followed by scheme characters up to a ":"; otherwise it throws.
SchemeEnd(u) ==
  IF \E k \in 1..Len(u) : u[k] = ":"
    THEN CHOOSE k \in 1..Len(u) : u[k] = ":" /\ \A j \in 1..(k - 1) : u[j] # ":"
    ELSE 0

URLParses(u) ==
  LET k == SchemeEnd(u) IN
    /\ k > 1
    /\ u[1] \in Alpha
    /\ \A j \in 1..(k - 1) : u[j] \in SchemeChar

\* parsedUrl.toString(): the scheme in lower case, the rest as written.
URLToString(u) ==
  LET k == SchemeEnd(u) IN
    [j \in 1..Len(u) |-> IF j < k THEN lower(u[j]) ELSE u[j]]

\* A sanitizeUrl that never throws.
sanitizeUrl_NoThrow(u) == [ok |-> TRUE, url |-> u]

\* sanitizeUrl(url): the serialized URL, or the throw 'Invalid URL format'.
sanitizeUrl(u) ==
  IF URLParses(u) THEN [ok |-> TRUE, url |-> URLToString(u)]
  ELSE [ok |-> FALSE, url |-> <<>>]

\* `!url`: undefined and the empty string are falsy.
Falsy(in) == ~in.has \/ in.s = <<>>

\* ----------------------------------------------------------- conversion
\* Markup is a sequence of UTF-16 code units.  "NUL" is U+0000, "LS" is
\* U+2028 (line separator), "PS" is U+2029 (paragraph separator).
Chars == {"NUL", "LS", "PS", "a", " "}

RECURSIVE Strings(_)
Strings(n) ==
  IF n = 0 THEN {<<>>}
  ELSE LET shorter == Strings(n - 1)
       IN  shorter \cup {Append(s, c) : s \in {x \in shorter : Len(x) = n - 1},
                                         c \in Chars}

HtmlInputs == Strings(MaxLen)

\* A local that has no value yet.
undefined == <<"undefined">>

\* String.prototype.replace(/[set]/g, by): every code unit of `set` is
\* replaced by `by`, left to right.
RECURSIVE replace(_, _, _)
replace(str, set, by) ==
  IF str = <<>> THEN <<>>
  ELSE (IF Head(str) \in set THEN by ELSE <<Head(str)>>)
         \o replace(Tail(str), set, by)

\* sanitizeHtml that leaves U+2029 in place
sanitizeHtml_KeepPS(h) ==
  replace(replace(h, {"NUL"}, <<>>), {"LS"}, <<" ">>)

\* sanitizeHtml(html)
sanitizeHtml(h) ==
  LET sanitized == replace(h, {"NUL"}, <<>>)
  IN  replace(sanitized, {"LS", "PS"}, <<" ">>)

\* turndownService.turndown(input): the library's conversion of its
\* argument, not interpreted here.
turndown(input) == <<"turndown", input>>

NoMarkdown == <<"undefined", <<>>>>

\* Attribute values of an element.  getAttribute returns null for an
\* attribute the element does not have.
Null == <<"null">>
AttrValues == {Null, <<>>, <<"x">>, <<"a", ".", "p", "n", "g">>}

NodeInputs == [tag : {"img"}, alt : AttrValues, src : AttrValues, title : AttrValues]

NoNode == [tag |-> "none", alt |-> Null, src |-> Null, title |-> Null]

getAttribute(nd, name) == nd[name]

\* `value || ''`: null and the empty string give ''.
OrEmpty(value) == IF value = Null \/ value = <<>> THEN <<>> ELSE value

\* The rule's replacement without the test of src
replacement_NoSrcTest(content, nd) ==
  LET alt == OrEmpty(getAttribute(nd, "alt"))
      src == OrEmpty(getAttribute(nd, "src"))
      title == OrEmpty(getAttribute(nd, "title"))
  IN  <<"!", "[">> \o alt \o <<"]", "(">> \o src
        \o (IF title # <<>> THEN <<" ", "\"">> \o title \o <<"\"">> ELSE <<>>)
        \o <<")">>

\* turndownService.addRule('preserveImages', ...): replacement(content, node)
replacement(content, nd) ==
  LET alt == OrEmpty(getAttribute(nd, "alt"))
      src == OrEmpty(getAttribute(nd, "src"))
      title == OrEmpty(getAttribute(nd, "title"))
  IN  IF src # <<>>
      THEN <<"!", "[">> \o alt \o <<"]", "(">> \o src
             \o (IF title # <<>> THEN <<" ", "\"">> \o title \o <<"\"">> ELSE <<>>)
             \o <<")">>
      ELSE <<>>

\* get-markdown, lines 322-325: the markup read from the page is
\* sanitized and the result is handed to turndown.
Extract ==
  /\ html # undefined
  /\ sanitizedHtml = undefined
  /\ sanitizedHtml' = sanitizeHtml(html)
  /\ markdown' = turndown(sanitizedHtml')
  /\ UNCHANGED <<browser, browserPage, browsers, pages, inits, reqs, out, log,
                 html, node, rendered>>

\* turndown meets an element the rule's filter ('img') selects and calls
\* the replacement.
Replace ==
  /\ node.tag = "img"
  /\ rendered = undefined
  /\ rendered' = replacement(<<>>, node)
  /\ UNCHANGED <<browser, browserPage, browsers, pages, inits, reqs, out, log,
                 html, sanitizedHtml, markdown, node>>

\* res.status(code).json(...): the response goes out, the handler is over
\* and its locals are gone; the client has the status code.
Respond(s, r, code, body) ==
  [s EXCEPT !.out = [s.reqs[r] EXCEPT !.pc = "done", !.resp = code, !.body = body,
                                      !.b = 0, !.pg = 0, !.el = 0, !.settled = {},
                                      !.waitBody = "unread", !.waitTime = 0],
            !.reqs[r] = [NoReq EXCEPT !.kind = "answered", !.resp = code],
            !.pages = [p \in DOMAIN s.pages |->
                        IF s.pages[p].nav = r
                          THEN [s.pages[p] EXCEPT !.nav = 0]
                          ELSE s.pages[p]]]

\* The catch of get-markdown: 500 {error: 'Failed to process URL', message}.
Caught(s, r, msg) ==
  Respond([s EXCEPT !.reqs[r].message = msg], r, 500, "Failed to process URL")

\* What the awaited calls throw: sanitizeUrl, a method call on null, a
\* rejected puppeteer promise.
InvalidUrlFormat == "Invalid URL format"

TypeError == "TypeError"

ProtocolError == "ProtocolError"

\* A page operation can only succeed while the page's browser is connected.
PageUsable(s, p) == p # 0 /\ s.browsers[s.pages[p].owner].connected

\* ------------------------------------------------------------ get-markdown
\* browserPage.goto(sanitizedUrl, ...) is called on the page the global
\* holds now; the navigation of that page is from now on this request's.
GmGotoCall(s, r) ==
  LET p == s.browserPage IN
    [s EXCEPT !.reqs[r].pc = "goto", !.reqs[r].pg = p, !.reqs[r].nav = p,
              !.pages[p].nav = r]

\* Lines 244-256, after the browser is known to be there: create the page
\* if the global is null, set the timeouts, call goto.  The ensure-browser
\* step is over, and with it the record of the lifecycle state it found.
GmProceed(s, r) ==
  LET s1 == [s EXCEPT !.reqs[r].at = "none"] IN
    IF s.browserPage = 0
      THEN IF s.browser = 0
             THEN Caught(s1, r, TypeError)
             ELSE [s1 EXCEPT !.reqs[r].pc = "newPage", !.reqs[r].b = s.browser]
      ELSE GmGotoCall(s1, r)

\* ------------------------------------------------------------- initBrowser
\* An invocation of initBrowser() is named after its caller: request r,
\* startServer, or the k-th 'disconnected' listener of browser b.
StartupInit == MaxReq + 1

HandlerInit(b, k) == MaxReq + 1 + (b - 1) * MaxBrowsers + k

InitIds == 1..(MaxReq + 1 + MaxBrowsers * MaxBrowsers)

NoInit == [pc |-> "none", b |-> 0, pg |-> 0, at |-> "none"]

\* initBrowser() up to `await puppeteer.launch(...)`.
initBrowser(s, i) == [s EXCEPT !.inits[i] = [NoInit EXCEPT !.pc = "launch"]]

InFlight(s, i) == s.inits[i].pc # "none"

\* `return true` / `return false` of initBrowser, and the code of the
\* caller that awaited it.
InitReturn(s, i, ok) ==
  LET s1 == [s EXCEPT !.inits[i] = NoInit]
      r == i
  IN  IF i \notin Req THEN s1
      ELSE IF s.reqs[r].kind = "start"
        THEN IF ok THEN Respond(s1, r, 200, "Browser started successfully")
                   ELSE Respond(s1, r, 500, "Failed to start browser")
        ELSE IF ok THEN GmProceed(s1, r)
                   ELSE Respond(s1, r, 500, "Failed to start browser")

\* The catch of initBrowser: the error is logged, both globals are
\* cleared, false is returned.
LaunchError == "Error launching browser"

\* A catch that logs and returns false but leaves the globals as they are.
InitCatch_KeepHandles(s, i) ==
  InitReturn([s EXCEPT !.log = LaunchError], i, FALSE)

InitCatch(s, i) ==
  InitReturn([s EXCEPT !.log = LaunchError, !.browser = 0, !.browserPage = 0],
             i, FALSE)

\* `browser = await puppeteer.launch(...)` resolved with a new browser,
\* then `browser.newPage()` is called on it.
LaunchOk(s, i) ==
  LET nb == Len(s.browsers) + 1 IN
    [s EXCEPT !.browsers = Append(@, [connected |-> TRUE, handlers |-> 0]),
              !.browser = nb,
              !.inits[i].pc = "newPage",
              !.inits[i].b = nb]

InitLaunch(i) ==
  /\ inits[i].pc = "launch"
  /\ \E ok \in BOOLEAN :
       /\ ok => Len(browsers) < MaxBrowsers
       /\ Set(IF ok THEN LaunchOk(St, i) ELSE InitCatch(St, i))

\* `browserPage = await browser.newPage()` resolved, then
\* `browser.on('disconnected', ...)` on what the global holds now, then
\* `browserPage.setViewport(...)` is called.
NewPageOk(s, i) ==
  LET np == Len(s.pages) + 1
      s1 == [s EXCEPT !.pages = Append(@, [owner |-> s.inits[i].b, nav |-> 0]),
                      !.browserPage = np]
  IN  IF s1.browser = 0
        THEN InitCatch(s1, i)
        ELSE [s1 EXCEPT !.browsers[s1.browser].handlers =
                          IF s1.browsers[s1.browser].connected THEN @ + 1 ELSE @,
                        !.inits[i].pc = "setViewport",
                        !.inits[i].pg = np]

InitNewPage(i) ==
  /\ inits[i].pc = "newPage"
  /\ \E ok \in BOOLEAN :
       /\ ok => browsers[inits[i].b].connected
       /\ Set(IF ok THEN NewPageOk(St, i) ELSE InitCatch(St, i))

SetupPc == {"setViewport", "setUserAgent", "evaluateOnNewDocument"}

NextSetup(pc) ==
  IF pc = "setViewport" THEN "setUserAgent" ELSE "evaluateOnNewDocument"

\* One of the three page-setup awaits resolved; the next one is called on
\* what the global browserPage holds now, the last one is followed by
\* `return true`.
SetupOk(s, i) ==
  IF s.inits[i].pc = "evaluateOnNewDocument" THEN InitReturn(s, i, TRUE)
  ELSE IF s.browserPage = 0 THEN InitCatch(s, i)
  ELSE [s EXCEPT !.inits[i].pc = NextSetup(@), !.inits[i].pg = s.browserPage]

InitSetup(i) ==
  /\ inits[i].pc \in SetupPc
  /\ \E ok \in BOOLEAN :
       /\ ok => PageUsable(St, inits[i].pg)
       /\ Set(IF ok THEN SetupOk(St, i) ELSE InitCatch(St, i))

\* ------------------------------------------------- the disconnected event
\* The state of the lifecycle manager as the specification names it: a
\* start sequence running, a close awaited, a browser held, or none.
Lifecycle(s) ==
  IF \E i \in InitIds : InFlight(s, i) THEN "Starting"
  ELSE IF \E r \in Req : s.reqs[r].pc = "close" THEN "Stopping"
  ELSE IF s.browser # 0 THEN "Live"
  ELSE "Absent"

\* A listener that clears the globals and does not call initBrowser().
Handler_NoRestart(s, b, k, at) ==
  [s EXCEPT !.browser = 0, !.browserPage = 0]

\* One listener of 'disconnected': clear both globals, call initBrowser().
\* `at` records the lifecycle state the event found.
Handler(s, b, k, at) ==
  LET s1 == initBrowser([s EXCEPT !.browser = 0, !.browserPage = 0],
                        HandlerInit(b, k))
  IN  [s1 EXCEPT !.inits[HandlerInit(b, k)].at = at]

\* The listeners of browser b run in the order they were registered.
RECURSIVE RunHandlers(_, _, _, _)
RunHandlers(s, b, k, at) ==
  IF k > s.browsers[b].handlers THEN s
  ELSE RunHandlers(Handler(s, b, k, at), b, k + 1, at)

\* The connection of browser b is lost (the process died, or close() took
\* it down): every listener registered on it runs.
Disconnected(s, b) ==
  LET s1 == RunHandlers([s EXCEPT !.browsers[b].connected = FALSE], b, 1,
                        Lifecycle(s))
  IN  [s1 EXCEPT !.browsers[b].handlers = 0]

Disconnect(b) ==
  /\ b \in 1..Len(browsers)
  /\ browsers[b].connected
  /\ Set(Disconnected(St, b))

\* ------------------------------------------------------------ the routes
Arrives(r) ==
  /\ reqs[r].kind = "none"
  /\ \A q \in Req : q < r => reqs[q].kind # "none"

\* Some initBrowser() that the disconnected listener called is running.
RestartPending(s) ==
  \E i \in InitIds : i > StartupInit /\ InFlight(s, i)

\* The route handler of request r is entered; `at` records the lifecycle
\* state the request found.
Enter(s, r, kind) ==
  [s EXCEPT !.reqs[r].kind = kind, !.reqs[r].at = Lifecycle(s)]

\* GET /api/status
StatusOf(s) == IF s.browser # 0 THEN "Browser running" ELSE "Browser not running"

Status(r) ==
  /\ Arrives(r)
  /\ Set(Respond(Enter(St, r, "status"), r, 200, StatusOf(St)))

\* A start route without the `if (browser)` test.
StartBrowser_NoGuard(s, r) ==
  initBrowser([Enter(s, r, "start") EXCEPT !.reqs[r].pc = "initBrowser"], r)

\* POST /api/start-browser
StartBrowser(s, r) ==
  LET s1 == Enter(s, r, "start") IN
    IF s.browser # 0 THEN Respond(s1, r, 200, "Browser already running")
    ELSE initBrowser([s1 EXCEPT !.reqs[r].pc = "initBrowser"], r)

Start(r) ==
  /\ Arrives(r)
  /\ Set(StartBrowser(St, r))

\* POST /api/stop-browser, up to `await browser.close()`
StopBrowser(s, r) ==
  LET s1 == Enter(s, r, "stop") IN
    IF s.browser = 0 THEN Respond(s1, r, 200, "Browser not running")
    ELSE [s1 EXCEPT !.reqs[r].pc = "close", !.reqs[r].b = s.browser]

Stop(r) ==
  /\ Arrives(r)
  /\ Set(StopBrowser(St, r))

\* close() resolved: the connection is gone by then; clear the globals.
StopClosed(s, r) ==
  Respond([s EXCEPT !.browser = 0, !.browserPage = 0], r, 200,
          "Browser stopped successfully")

StopResolve(r) ==
  /\ reqs[r].kind = "stop"
  /\ reqs[r].pc = "close"
  /\ ~browsers[reqs[r].b].connected
  /\ Set(StopClosed(St, r))

\* close() rejected.
StopReject(r) ==
  /\ reqs[r].kind = "stop"
  /\ reqs[r].pc = "close"
  /\ Set(Respond(St, r, 500, "Failed to stop browser"))

\* A get-markdown that calls initBrowser() without looking at `browser`.
GetMarkdown_AlwaysLaunch(s, r, in) ==
  LET s1 == [Enter(s, r, "getmd") EXCEPT !.reqs[r].hasUrl = in.has,
                                         !.reqs[r].url = in.s]
      su == sanitizeUrl(in.s)
      s2 == [s1 EXCEPT !.reqs[r].sanitizedUrl = su.url]
  IN  IF Falsy(in) THEN Respond(s1, r, 400, "URL is required")
      ELSE IF ~su.ok THEN Caught(s1, r, InvalidUrlFormat)
      ELSE initBrowser([s2 EXCEPT !.reqs[r].pc = "initBrowser"], r)

\* POST /api/get-markdown, up to its first await
GetMarkdown(s, r, in) ==
  LET s0 == Enter(s, r, "getmd")
      s1 == [s0 EXCEPT !.reqs[r].hasUrl = in.has, !.reqs[r].url = in.s]
      su == sanitizeUrl(in.s)
      s2 == [s1 EXCEPT !.reqs[r].sanitizedUrl = su.url]
  IN  IF Falsy(in) THEN Respond(s1, r, 400, "URL is required")
      ELSE IF ~su.ok THEN Caught(s1, r, InvalidUrlFormat)
      ELSE IF s.browser = 0
        THEN initBrowser([s2 EXCEPT !.reqs[r].pc = "initBrowser"], r)
        ELSE GmProceed(s2, r)

GetMd(r) ==
  /\ Arrives(r)
  /\ \E in \in UrlInputs : Set(GetMarkdown(St, r, in))

\* `browserPage = await browser.newPage()` of the request resolved.
GmNewPageOk(s, r) ==
  LET np == Len(s.pages) + 1 IN
    GmGotoCall([s EXCEPT !.pages = Append(@, [owner |-> s.reqs[r].b, nav |-> 0]),
                         !.browserPage = np,
                         !.reqs[r].b = 0], r)

GmNewPage(r) ==
  /\ reqs[r].pc = "newPage"
  /\ \E ok \in BOOLEAN :
       /\ ok => browsers[reqs[r].b].connected
       /\ Set(IF ok THEN GmNewPageOk(St, r) ELSE Caught(St, r, ProtocolError))

\* A page method is called on what the global browserPage holds now; on
\* null that is a TypeError, which the catch of the route answers.
GmCall(s, r, pc) ==
  IF s.browserPage = 0 THEN Caught(s, r, TypeError)
  ELSE [s EXCEPT !.reqs[r].pc = pc, !.reqs[r].pg = s.browserPage,
                 !.reqs[r].settled = {}]

\* waitTime of the request body: not supplied, or a number of milliseconds.
DefaultWaitTime == 2000
WaitTimes == {500}
WaitInputs == [has : {FALSE}, ms : {0}] \cup [has : {TRUE}, ms : WaitTimes]

\* `const { url, waitTime = 2000, selector } = req.body`
waitTimeOf(w) == IF w.has THEN w.ms ELSE DefaultWaitTime

\* Promise.all([...]) is entered: waitForNetworkIdle and evaluate are called
\* on the page, setTimeout(resolve, waitTime) is armed.  The waitTime of
\* the body is drawn here, where the code first uses it.
GmReadinessCall(s, r, w) ==
  LET s1 == GmCall(s, r, "readiness") IN
    IF s1.reqs[r].pc # "readiness" THEN s1
    ELSE [s1 EXCEPT !.reqs[r].waitBody = IF w.has THEN "given" ELSE "absent",
                    !.reqs[r].waitTime = waitTimeOf(w)]

\* goto resolved: Promise.all([waitForNetworkIdle, evaluate, setTimeout]).
GmGoto(r) ==
  /\ reqs[r].pc = "goto"
  /\ \E ok \in BOOLEAN :
       /\ ok => PageUsable(St, reqs[r].pg)
       /\ \/ ok /\ \E w \in WaitInputs : Set(GmReadinessCall(St, r, w))
          \/ ~ok /\ Set(Caught(St, r, ProtocolError))

Readiness == {"networkIdle", "documentComplete", "delay"}

\* A readiness wait that goes on as soon as the two page promises are
\* fulfilled, whatever the timer.
GmReadyOk_Race(s, r, c) ==
  IF {"networkIdle", "documentComplete"} \subseteq s.reqs[r].settled \cup {c}
    THEN [s EXCEPT !.reqs[r].pc = "settle", !.reqs[r].pg = 0,
                   !.reqs[r].settled = {}, !.reqs[r].waitBody = "unread",
                   !.reqs[r].waitTime = 0]
    ELSE [s EXCEPT !.reqs[r].settled = @ \cup {c}]

\* One of the three promises of Promise.all settled.  A rejection of a
\* page promise rejects the whole; the timer never rejects.  When all
\* three are fulfilled the 2000 ms timer of line 277 is started.
GmReadyOk(s, r, c) ==
  IF s.reqs[r].settled \cup {c} = Readiness
    THEN [s EXCEPT !.reqs[r].pc = "settle", !.reqs[r].pg = 0,
                   !.reqs[r].settled = {}, !.reqs[r].waitBody = "unread",
                   !.reqs[r].waitTime = 0]
    ELSE [s EXCEPT !.reqs[r].settled = @ \cup {c}]

GmReady(r, c) ==
  /\ reqs[r].pc = "readiness"
  /\ c \notin reqs[r].settled
  /\ \E ok \in BOOLEAN :
       /\ (ok /\ c # "delay") => PageUsable(St, reqs[r].pg)
       /\ (~ok) => c # "delay"
       /\ Set(IF ok THEN GmReadyOk(St, r, c) ELSE Caught(St, r, ProtocolError))

\* `browserPage.evaluate(...)` of the page-loaded check is called.
GmLoadedCall(s, r) == GmCall(s, r, "isPageLoaded")

\* The 2000 ms timer fired and `selector` of the request body is read for
\* the first time (the value is drawn here, where the code first looks at
\* it).  With a selector, waitForSelector is called inside its own try: a
\* TypeError on a null page is swallowed there.
GmAfterSettle(s, r, sel) ==
  LET s1 == [s EXCEPT !.reqs[r].selector = sel] IN
    IF sel = "given" /\ s.browserPage # 0
      THEN GmCall(s1, r, "waitForSelector")
      ELSE GmLoadedCall(s1, r)

Selectors == {"given", "absent"}

GmSettle(r) ==
  /\ reqs[r].pc = "settle"
  /\ \E sel \in Selectors : Set(GmAfterSettle(St, r, sel))

\* waitForSelector resolved or rejected: either way the route goes on.
GmWaitForSelector(r) ==
  /\ reqs[r].pc = "waitForSelector"
  /\ Set(GmLoadedCall(St, r))

\* Lines 306-319: the markup is asked for.
GmExtractCall(s, r) ==
  IF s.reqs[r].selector = "given" THEN GmCall(s, r, "query")
  ELSE GmCall(s, r, "content")

\* The page-loaded check resolved; if the page is not loaded a 5000 ms
\* timer is awaited first.
GmLoadedOk(s, r, loaded) ==
  IF loaded THEN GmExtractCall(s, r)
  ELSE [s EXCEPT !.reqs[r].pc = "extraWait", !.reqs[r].pg = 0]

GmIsPageLoaded(r) ==
  /\ reqs[r].pc = "isPageLoaded"
  /\ \/ /\ PageUsable(St, reqs[r].pg)
        /\ \E loaded \in BOOLEAN : Set(GmLoadedOk(St, r, loaded))
     \/ Set(Caught(St, r, ProtocolError))

GmExtraWait(r) ==
  /\ reqs[r].pc = "extraWait"
  /\ Set(GmExtractCall(St, r))

\* An extraction that reads the whole document whatever $(selector) gave.
GmQueryOk_Document(s, r, found) ==
  GmCall([s EXCEPT !.reqs[r].matched = IF found THEN "yes" ELSE "no"], r,
         "content")

\* browserPage.$(selector) resolved with an element handle or with null;
\* `matched` is the truth of `element`.
GmQueryOk(s, r, found) ==
  LET s0 == [s EXCEPT !.reqs[r].matched = IF found THEN "yes" ELSE "no"] IN
    IF found
      THEN LET s1 == GmCall(s0, r, "outerHTML") IN
             IF s.browserPage = 0 THEN s1
             ELSE [s1 EXCEPT !.reqs[r].el = s.reqs[r].pg]
      ELSE GmCall(s0, r, "content")

GmQuery(r) ==
  /\ reqs[r].pc = "query"
  /\ \/ /\ PageUsable(St, reqs[r].pg)
        /\ \E found \in BOOLEAN : Set(GmQueryOk(St, r, found))
     \/ Set(Caught(St, r, ProtocolError))

\* The markup arrived: sanitizeHtml, turndown, then browserPage.title() is
\* called.  `content` is the navigation the document read belongs to.
GmHtmlOk(s, r) ==
  LET src == IF s.reqs[r].pc = "outerHTML" THEN "element" ELSE "document"
      s1 == [s EXCEPT !.reqs[r].src = src,
                      !.reqs[r].content = s.pages[s.reqs[r].pg].nav,
                      !.reqs[r].el = 0]
  IN  GmCall(s1, r, "title")

\* An element handle can only be evaluated in the page it came from.
GmHtml(r) ==
  /\ reqs[r].pc \in {"outerHTML", "content"}
  /\ \E ok \in BOOLEAN :
       /\ ok => PageUsable(St, reqs[r].pg)
       /\ (ok /\ reqs[r].pc = "outerHTML") => reqs[r].el = reqs[r].pg
       /\ Set(IF ok THEN GmHtmlOk(St, r) ELSE Caught(St, r, ProtocolError))

\* title() resolved: res.json({url, markdown, title}).
GmTitleOk(s, r) ==
  Respond([s EXCEPT !.reqs[r].title = s.pages[s.reqs[r].pg].nav], r, 200, "")

GmTitle(r) ==
  /\ reqs[r].pc = "title"
  /\ \E ok \in BOOLEAN :
       /\ ok => PageUsable(St, reqs[r].pg)
       /\ Set(IF ok THEN GmTitleOk(St, r) ELSE Caught(St, r, ProtocolError))

\* ------------------------------------------------------ the specification
\* No markup is being converted.
NoConversion ==
  /\ html = undefined
  /\ sanitizedHtml = undefined
  /\ markdown = NoMarkdown
  /\ node = NoNode
  /\ rendered = undefined

Init ==
  /\ browser = 0
  /\ browserPage = 0
  /\ browsers = <<>>
  /\ pages = <<>>
  /\ inits = [i \in InitIds |->
                IF i = StartupInit THEN [NoInit EXCEPT !.pc = "launch"] ELSE NoInit]
  /\ reqs = [r \in Req |-> NoReq]
  /\ out = NoReq
  /\ log = ""
  /\ NoConversion

\* The steps of initBrowser(), whoever called it.
InitStep ==
  \/ \E i \in InitIds : InitLaunch(i)
  \/ \E i \in InitIds : InitNewPage(i)
  \/ \E i \in InitIds : InitSetup(i)

\* Chrome goes away at any moment.
Crash == \E b \in 1..Len(browsers) : Disconnect(b)

\* The control routes, for the requests of R.
Control(R) ==
  \/ \E r \in R : Status(r)
  \/ \E r \in R : Start(r)
  \/ \E r \in R : Stop(r)
  \/ \E r \in R : StopResolve(r)
  \/ \E r \in R : StopReject(r)

\* The awaits of the get-markdown route from goto on, for the requests of R.
Navigation(R) ==
  \/ \E r \in R : GmGoto(r)
  \/ \E r \in R, c \in Readiness : GmReady(r, c)
  \/ \E r \in R : GmSettle(r)
  \/ \E r \in R : GmWaitForSelector(r)
  \/ \E r \in R : GmIsPageLoaded(r)
  \/ \E r \in R : GmExtraWait(r)
  \/ \E r \in R : GmQuery(r)
  \/ \E r \in R : GmHtml(r)
  \/ \E r \in R : GmTitle(r)

\* The get-markdown route, for the requests of R.
Fetch(R) ==
  \/ \E r \in R : GetMd(r)
  \/ \E r \in R : GmNewPage(r)
  \/ Navigation(R)

\* The server with no client but a status poll: start-up, crashes and the
\* automatic restarts.  Every awaited promise of initBrowser() settles.
NextAuto == InitStep \/ Crash \/ \E r \in Req : Status(r)

SpecAuto ==
  /\ Init
  /\ [][NextAuto]_vars
  /\ \A i \in InitIds :
       /\ WF_vars(InitLaunch(i))
       /\ WF_vars(InitNewPage(i))
       /\ WF_vars(InitSetup(i))

\* The server, from its start-up on, with a client that sends one request
\* to a control route.
NextControl == InitStep \/ Crash \/ Control({1})

SpecControl == Init /\ [][NextControl]_vars

\* startServer() is through: its initBrowser() has returned, either true
\* with the first browser and page in the globals and the listener on the
\* browser, or false from a rejected launch.
InitStarted ==
  /\ inits = [i \in InitIds |-> NoInit]
  /\ reqs = [r \in Req |-> NoReq]
  /\ out = NoReq
  /\ log = ""
  /\ NoConversion
  /\ \/ /\ browser = 1
        /\ browserPage = 1
        /\ browsers = <<[connected |-> TRUE, handlers |-> 1]>>
        /\ pages = <<[owner |-> 1, nav |-> 0]>>
     \/ /\ browser = 0
        /\ browserPage = 0
        /\ browsers = <<>>
        /\ pages = <<>>

\* The started server with a client that sends one get-markdown request.
NextFetch == InitStep \/ Crash \/ Fetch({1})

SpecFetch == InitStarted /\ [][NextFetch]_vars

\* The started server with a client that sends one request to any route.
NextRequest == InitStep \/ Crash \/ Control({1}) \/ Fetch({1})

SpecRequest == InitStarted /\ [][NextRequest]_vars

\* No request is being served.
Idle == \A r \in Req : reqs[r].kind \in {"none", "answered"}

\* The started server with a client that sends get-markdown requests one
\* after the other, each after the answer to the one before (as test.js
\* does), and a Chrome that stays up.  Such a request never finds a
\* browser without a page, so the newPage() of line 245 is not awaited.
NextConsecutive ==
  \/ InitStep
  \/ \E r \in Req : Idle /\ GetMd(r)
  \/ Navigation(Req)

SpecConsecutive == InitStarted /\ [][NextConsecutive]_vars

\* The server without a browser.
Stopped ==
  /\ browser = 0
  /\ browserPage = 0
  /\ browsers = <<>>
  /\ pages = <<>>
  /\ inits = [i \in InitIds |-> NoInit]
  /\ reqs = [r \in Req |-> NoReq]
  /\ out = NoReq
  /\ log = ""

\* A markup is about to be sanitized and converted.
InitSanitize ==
  /\ Stopped
  /\ html \in HtmlInputs
  /\ sanitizedHtml = undefined
  /\ markdown = NoMarkdown
  /\ node = NoNode
  /\ rendered = undefined

SpecSanitize == InitSanitize /\ [][Extract]_vars

\* turndown is about to convert an image element.
InitImages ==
  /\ Stopped
  /\ html = undefined
  /\ sanitizedHtml = undefined
  /\ markdown = NoMarkdown
  /\ node \in NodeInputs
  /\ rendered = undefined

SpecImages == InitImages /\ [][Replace]_vars

\* The started server with concurrent get-markdown requests and a Chrome
\* that stays up.
NextFetches == InitStep \/ Fetch(Req)

SpecFetches == InitStarted /\ [][NextFetches]_vars

TypeOK ==
  /\ browser \in 0..Len(browsers)
  /\ browserPage \in 0..Len(pages)

\* ------------------------------------------------------------- properties
\* The launch sequences running on behalf of get-markdown requests.
Launching == {r \in Req : reqs[r].kind = "getmd" /\ InFlight(St, r)}

\* The Chrome instances whose connection is up.
Connected == {b \in 1..Len(browsers) : browsers[b].connected}

\* The places of a get-markdown handler between its ensure-browser step
\* and its response: page creation, navigation, readiness, extraction.
FetchSteps ==
  {"newPage", "goto", "readiness", "settle", "waitForSelector", "isPageLoaded",
   "extraWait", "query", "outerHTML", "content", "title"}

Fetching == {r \in Req : reqs[r].kind = "getmd" /\ reqs[r].pc \in FetchSteps}

\* A session is held: a connected browser and a page of it in the globals,
\* nothing in flight.
LiveSession ==
  /\ Lifecycle(St) = "Live"
  /\ browser \in Connected
  /\ browserPage # 0
  /\ pages[browserPage].owner = browser

\* The gap between a disconnect and the completion of the automatic
\* restart, before the restart has a browser.
Gap == browser = 0 /\ RestartPending(St)

\* Request r enters the route `kind` in this step.
Entering(r, kind) ==
  /\ reqs[r].kind = "none"
  /\ \/ reqs'[r].kind = kind
     \/ reqs'[r].kind = "answered" /\ out'.kind = kind

\* The request of slot r as this step leaves it: in flight, or answered.
Entered(r) == IF reqs'[r].kind = "answered" THEN out' ELSE reqs'[r]

\* InvalidUrl of the taxonomy: the url is missing or does not parse.
InvalidUrl(q) == ~q.hasUrl \/ ~URLParses(q.url)

\* What a no-op leaves alone: the handles, the browsers, the pages and the
\* start sequences.
SessionUnchanged == UNCHANGED <<browser, browserPage, browsers, pages, inits>>

Benign(q, body) == q.resp = 200 /\ q.body = body

\* The initBrowser() invocations that a 'disconnected' listener made when
\* the event found the lifecycle Live.
Restarts == {i \in InitIds : i > StartupInit /\ inits[i].at = "Live"}

\* C1: when get-markdown requests reach the ensure-browser step one inside
\* the other while the lifecycle is Absent, exactly one launch sequence is
\* performed: while the launch of a request that found Absent is running,
\* no other request runs a launch of its own.
C1_OneLaunchSequence ==
  \A r \in Launching : reqs[r].at = "Absent" => Launching = {r}

\* C2: at most one live browser exists at any time.
C2_AtMostOneBrowser == Cardinality(Connected) <= 1

\* C3: navigation-and-extraction on the shared page is mutually exclusive:
\* at any time at most one get-markdown request is between its ensure-live
\* step and the end of its extraction.
C3_FetchExclusion == Cardinality(Fetching) <= 1

\* C4: a get-markdown request during which the browser disconnected never
\* returns a 200 result: a 200 response comes from a request whose
\* navigated page still belongs to a connected browser.
C4_DisconnectFailsFetch ==
  (out.kind = "getmd" /\ out.resp = 200)
    => (out.nav # 0 /\ browsers[pages[out.nav].owner].connected)

\* C5: when stop is called in Live and answers 'Browser stopped
\* successfully', the lifecycle ends in Absent: no browser is held and no
\* restart is running.
C5_StopEndsAbsent ==
  (out.kind = "stop" /\ out.at = "Live" /\ out.body = "Browser stopped successfully")
    => (browser = 0 /\ ~RestartPending(St))

\* A disconnect of the held browser while Live clears both handles and
\* calls initBrowser() in the same step.
DisconnectRestarts ==
  \A b \in 1..Len(browsers) :
    (Lifecycle(St) = "Live" /\ browser = b /\ browsers[b].connected
       /\ ~browsers'[b].connected)
      => (browser' = 0 /\ browserPage' = 0 /\ Restarts' # {})

\* A restart that returns without having logged a launch error leaves a
\* live session.
RestartReturnsLive ==
  \A i \in Restarts :
    (inits[i].pc = "evaluateOnNewDocument" /\ inits'[i].pc = "none" /\ log' = "")
      => LiveSession'

\* C6: a disconnect while Live makes the manager Absent at once and starts
\* an automatic restart; the restart eventually returns, and when its
\* launch sequence succeeded the state is Live again, with no start-browser
\* or get-markdown request made.
C6_AutoRestart ==
  /\ [][DisconnectRestarts /\ RestartReturnsLive]_vars
  /\ \A i \in InitIds : (i \in Restarts) ~> (inits[i].pc = "none")

C6_Witness ==
  \E i \in Restarts : inits[i].pc = "evaluateOnNewDocument" /\ browser \in Connected

\* C7: a get-markdown request issued in the gap is answered with an error
\* at once and starts no launch of its own.
C7_GapFetchUnavailable ==
  [][\A r \in Req :
       (Gap /\ Entering(r, "getmd"))
         => (out'.kind = "getmd" /\ out'.resp \notin {0, 200} /\ ~InFlight(St, r)')]_vars

\* C8: start-browser entered while Live and stop-browser entered while
\* Absent answer 200 with the benign status, launch nothing, close nothing
\* and leave the session as it was.
C8_NoOps ==
  [][\A r \in Req :
       /\ (Entering(r, "start") /\ Lifecycle(St) = "Live")
            => (out'.kind = "start" /\ Benign(out', "Browser already running")
                  /\ SessionUnchanged)
       /\ (Entering(r, "stop") /\ Lifecycle(St) = "Absent")
            => (out'.kind = "stop" /\ Benign(out', "Browser not running")
                  /\ SessionUnchanged)]_vars

C8_Witness ==
  /\ out.kind = "start"
  /\ out.at = "Live"
  /\ Benign(out, "Browser already running")
  /\ LiveSession

\* C9: a get-markdown whose url does not parse as an absolute URI is
\* answered with an error that names the url (400 'URL is required' or
\* the 500 whose message is 'Invalid URL format') in the step it arrives,
\* before any launch or navigation, and the session is left as it was.
C9_InvalidUrlRejected ==
  [][\A r \in Req :
       (Entering(r, "getmd") /\ InvalidUrl(Entered(r)))
         => /\ out'.kind = "getmd"
            /\ \/ out'.resp = 400 /\ out'.body = "URL is required"
               \/ out'.resp = 500 /\ out'.message = InvalidUrlFormat
            /\ out'.nav = 0
            /\ SessionUnchanged]_vars

C9_Witness ==
  /\ out.kind = "getmd"
  /\ out.hasUrl
  /\ out.url = <<"a", "/">>
  /\ out.resp = 500
  /\ out.message = InvalidUrlFormat

\* C10: a failed get-markdown is answered 400 when the url is invalid and
\* 500 otherwise.
C10_StatusTaxonomy ==
  (out.kind = "getmd" /\ out.resp \notin {0, 200})
    => out.resp = (IF InvalidUrl(out) THEN 400 ELSE 500)

\* C11: every failure of a get-markdown fetch after validation is answered
\* with a 500 response that carries the error message, and a 200 response
\* carries the url and a markup that was read.
C11_ErrorBoundary ==
  /\ (out.kind = "getmd" /\ out.resp \notin {0, 200} /\ ~InvalidUrl(out))
       => (out.resp = 500 /\ out.message # "")
  /\ (out.kind = "getmd" /\ out.resp = 200)
       => (out.sanitizedUrl # <<>> /\ out.src # "none")

\* The initBrowser() of request r returned in this step.
Returned(r) == InFlight(St, r) /\ ~InFlight(St, r)'

\* C12: whenever a start attempt fails, whoever asked for it, both the
\* browser handle and the page handle are absent afterwards; a
\* start-browser or get-markdown request that awaited it is answered 500
\* 'Failed to start browser', and the fetch has navigated nothing.
C12_StartFailure ==
  [][log' = LaunchError
       => /\ browser' = 0
          /\ browserPage' = 0
          /\ \A r \in Req :
               Returned(r)
                 => /\ out'.kind = reqs[r].kind
                    /\ out'.resp = 500
                    /\ out'.body = "Failed to start browser"
                    /\ out'.nav = 0]_vars

C12_Witness ==
  /\ log = LaunchError
  /\ out.kind = "getmd"
  /\ out.resp = 500
  /\ out.body = "Failed to start browser"
  /\ browser = 0
  /\ browserPage = 0
  /\ Len(browsers) > 0

\* An automatic start attempt (an initBrowser() called by a 'disconnected'
\* listener) fails in this step.
RestartFails(i) ==
  /\ i > StartupInit
  /\ InFlight(St, i)
  /\ ~InFlight(St, i)'
  /\ log' = LaunchError

\* Some browser is connected and has a listener that would restart.
Armed == \E b \in Connected : browsers[b].handlers > 0

\* C13: the automatic restart is an unbounded retry: whenever an automatic
\* start attempt fails another automatic attempt follows, that is, one is
\* running after the failure or a listener is left that can begin one.
C13_UnboundedRetry ==
  [][\A i \in InitIds : RestartFails(i) => (RestartPending(St)' \/ Armed')]_vars

\* C14: the markup of a 200 response is the matched element's when a
\* selector is given and $(selector) found an element, and the whole
\* document's when no selector is given or the selector matched nothing
\* (whatever the visibility wait did); the missing match is no failure.
C14_ExtractionSource ==
  (out.kind = "getmd" /\ out.resp = 200)
    => /\ (out.selector = "given") = (out.matched # "unread")
       /\ (out.selector = "given" /\ out.matched = "yes") => out.src = "element"
       /\ (out.selector = "absent" \/ out.matched = "no") => out.src = "document"

C14_Witness ==
  /\ out.kind = "getmd"
  /\ out.resp = 200
  /\ out.selector = "given"
  /\ out.matched = "no"
  /\ out.src = "document"

\* Request r has left its ensure-browser step in this step and is still
\* being served.
Ensured(r) ==
  /\ reqs[r].kind = "getmd"
  /\ reqs[r].pc = "initBrowser"
  /\ reqs'[r].kind = "getmd"
  /\ reqs'[r].pc # "initBrowser"

\* C15: with no stop and no disconnect, a get-markdown that arrives in Live
\* launches nothing and navigates the page the session already holds; one
\* that arrives in Absent awaits its start and navigates only after the
\* start has succeeded, the state then being Live.
C15_PersistentSession ==
  [][\A r \in Req :
       /\ (Entering(r, "getmd") /\ ~InvalidUrl(Entered(r)) /\ Lifecycle(St) = "Live")
            => /\ UNCHANGED <<browser, browserPage, browsers, inits>>
               /\ Len(pages') = Len(pages)
               /\ reqs'[r].pc = "goto"
               /\ reqs'[r].pg = browserPage
               /\ pages[browserPage].owner = browser
       /\ (Entering(r, "getmd") /\ ~InvalidUrl(Entered(r)) /\ Lifecycle(St) = "Absent")
            => /\ reqs'[r].pc = "initBrowser"
               /\ reqs'[r].nav = 0
       /\ Ensured(r)
            => /\ log' = ""
               /\ LiveSession'
               /\ reqs'[r].pc = "goto"
               /\ reqs'[r].pg = browserPage']_vars

C15_Witness ==
  /\ reqs[1].kind = "answered"
  /\ reqs[1].resp = 200
  /\ reqs[2].kind = "getmd"
  /\ reqs[2].pc = "goto"
  /\ reqs[2].pg = browserPage
  /\ Len(browsers) = 1
  /\ Len(pages) = 1
  /\ LiveSession

\* What the sanitizer is to make of a markup, character by character: NUL
\* dropped, U+2028 and U+2029 turned into one space, the rest kept in order.
Cleaned(h) ==
  LET kept == SelectSeq(h, LAMBDA c : c # "NUL")
  IN  [i \in DOMAIN kept |-> IF kept[i] \in {"LS", "PS"} THEN " " ELSE kept[i]]

\* C16: for every markup over NUL, U+2028, U+2029 and ordinary characters,
\* the sanitized markup holds no NUL, U+2028 or U+2029; every NUL is
\* removed, every U+2028 / U+2029 is replaced by exactly one space and the
\* other characters are kept in order; sanitizing again changes nothing;
\* and the Markdown conversion is given the sanitized markup.
C16_SanitizeHtml ==
  sanitizedHtml # undefined
    => /\ \A i \in DOMAIN sanitizedHtml : sanitizedHtml[i] \notin {"NUL", "LS", "PS"}
       /\ sanitizedHtml = Cleaned(html)
       /\ Len(sanitizedHtml) = Len(html) - Len(SelectSeq(html, LAMBDA c : c = "NUL"))
       /\ sanitizeHtml(sanitizedHtml) = sanitizedHtml
       /\ markdown = turndown(sanitizedHtml)

C16_Witness ==
  /\ html = <<"NUL", "PS", "LS">>
  /\ sanitizedHtml = <<" ", " ">>
  /\ markdown = turndown(<<" ", " ">>)

\* An attribute is present with a value.
Present(value) == value # Null /\ value # <<>>

\* An absent attribute counts as the empty string.
Default(value) == IF value = Null THEN <<>> ELSE value

\* C17: an image with a src is rendered as ![alt](src "title"), where an
\* absent alt is empty and an absent title leaves ![alt](src); an image
\* whose src is absent or empty is rendered as the empty string.  So
\* src=a.png, alt=x gives ![x](a.png) and alt=x without src gives ''.
C17_ImageRule ==
  rendered # undefined
    => LET alt == Default(node.alt)
           title == Default(node.title)
       IN  /\ (Present(node.src) /\ title # <<>>)
                => rendered = <<"!", "[">> \o alt \o <<"]", "(">> \o node.src
                                \o <<" ", "\"">> \o title \o <<"\"", ")">>
           /\ (Present(node.src) /\ title = <<>>)
                => rendered = <<"!", "[">> \o alt \o <<"]", "(">> \o node.src \o <<")">>
           /\ ~Present(node.src) => rendered = <<>>
           /\ (node.alt = <<"x">> /\ node.src = Null) => rendered = <<>>

C17_Witness ==
  /\ node = [tag |-> "img", alt |-> <<"x">>, src |-> <<"a", ".", "p", "n", "g">>,
             title |-> Null]
  /\ rendered = <<"!", "[", "x", "]", "(", "a", ".", "p", "n", "g", ")">>

\* C18: in every reachable state the page handle is defined if and only if
\* the browser handle is defined and its connection is up.
C18_SessionInvariant ==
  (browserPage # 0) <=> (browser # 0 /\ browser \in Connected)

\* The lifecycle transitions in flight: the initBrowser() invocations that
\* have not returned (start-up, start-browser, the ensure step of
\* get-markdown, the restart of the 'disconnected' listener) and the
\* stop-browser handlers awaiting browser.close().
Starts == {i \in InitIds : InFlight(St, i)}

Stops == {r \in Req : reqs[r].kind = "stop" /\ reqs[r].pc = "close"}

\* C19: lifecycle transitions are serialized: at any time at most one of
\* manual start, ensure-triggered start, start-up initialisation, stop and
\* automatic restart is in flight.
C19_Serialized == Cardinality(Starts) + Cardinality(Stops) <= 1

\* The connection of browser b goes down in this step.
Disconnects(b) == browsers[b].connected /\ ~browsers'[b].connected

\* C20: a disconnect is acted on only while the lifecycle is Live: one
\* observed in Absent, Starting or Stopping (in particular the one that
\* stop's own close() raises) changes neither handle and starts no
\* initBrowser().
C20_DisconnectOnlyLive ==
  [][\A b \in 1..Len(browsers) :
       (Disconnects(b) /\ Lifecycle(St) # "Live")
         => UNCHANGED <<browser, browserPage, inits>>]_vars

\* The places of a get-markdown handler where the markup is being read.
ExtractSteps == {"query", "outerHTML", "content"}

\* The handler of request r moves from one await to another in this step.
Moves(r, from, to) ==
  /\ reqs[r].kind = "getmd" /\ reqs[r].pc \in from
  /\ reqs'[r].kind = "getmd" /\ reqs'[r].pc \in to

\* The handler of request r arrives at an await of `to` in this step.
Reaches(r, to) ==
  /\ reqs[r].pc \notin to
  /\ reqs'[r].kind = "getmd" /\ reqs'[r].pc \in to

\* C21: within one fetch the readiness wait is entered only when goto has
\* resolved, with the timer set to the waitTime of the body, 2000 when the
\* body has none; the wait is left for the next step only when all three
\* of network-idle, document-complete and the timer have settled, so never
\* with the timer pending; and the extraction is reached only through that
\* wait.
C21_ReadinessOrdering ==
  [][\A r \in Req :
       /\ Reaches(r, {"readiness"})
            => /\ reqs[r].kind = "getmd" /\ reqs[r].pc = "goto"
               /\ reqs'[r].settled = {}
               /\ reqs'[r].waitBody = "absent" => reqs'[r].waitTime = 2000
               /\ reqs'[r].waitBody = "given" => reqs'[r].waitTime \in WaitTimes
       /\ (reqs[r].kind = "getmd" /\ reqs[r].pc = "readiness"
             /\ reqs'[r].pc # "readiness")
            => \/ /\ reqs'[r].pc = "settle"
                  /\ "delay" \in reqs[r].settled
                       \/ reqs[r].settled = Readiness \ {"delay"}
                  /\ Cardinality(reqs[r].settled) = 2
               \/ reqs'[r].kind = "answered" /\ out'.resp = 500
       /\ Reaches(r, {"settle"}) => Moves(r, {"readiness"}, {"settle"})
       /\ Reaches(r, {"waitForSelector"}) => Moves(r, {"settle"}, {"waitForSelector"})
       /\ Reaches(r, {"isPageLoaded"})
            => Moves(r, {"settle", "waitForSelector"}, {"isPageLoaded"})
       /\ Reaches(r, {"extraWait"}) => Moves(r, {"isPageLoaded"}, {"extraWait"})
       /\ Reaches(r, ExtractSteps)
            => Moves(r, {"isPageLoaded", "extraWait", "query"}, ExtractSteps)]_vars

C21_Witness ==
  /\ reqs[1].kind = "getmd"
  /\ reqs[1].pc = "readiness"
  /\ reqs[1].settled = {"networkIdle", "documentComplete"}
  /\ reqs[1].waitBody = "absent"
  /\ reqs[1].waitTime = 2000

\* C22: GET /api/status always answers 200, reports 'Browser running'
\* exactly when the lifecycle is Live and 'Browser not running' in Absent,
\* Starting and Stopping, and changes nothing of the lifecycle.
C22_StatusReportsLive ==
  [][out'.kind = "status"
       => /\ out'.resp = 200
          /\ out'.body = (IF Lifecycle(St) = "Live" THEN "Browser running"
                          ELSE "Browser not running")
          /\ UNCHANGED <<browser, browserPage, browsers, inits>>]_vars

\* Request r is answered 200 in this step.
Succeeds(r) ==
  /\ reqs[r].kind = "getmd"
  /\ reqs'[r].kind = "answered"
  /\ out'.resp = 200

\* C23: every 200 response of get-markdown carries the url of its own
\* request with a markup and a title that were read from the page while the
\* most recent navigation of that page was the one this request issued.
C23_ResultConsistency ==
  [][\A r \in Req :
       Succeeds(r)
         => /\ out'.sanitizedUrl = reqs[r].sanitizedUrl
            /\ out'.content = r
            /\ out'.title = r]_vars

\* C24: a disconnect of a browser that is not the one the live Session
\* holds neither clears nor replaces the handles of that Session and starts
\* no initBrowser().
C24_ForeignDisconnect ==
  [][\A b \in 1..Len(browsers) :
       (Disconnects(b) /\ LiveSession /\ b # browser)
         => UNCHANGED <<browser, browserPage, inits>>]_vars

\* C25: no orphaned browser: every browser that was launched and has not
\* disconnected is the one the global `browser` refers to.
C25_NoOrphan == \A b \in Connected : b = browser

\* The pages created on browser b.
PagesOf(b) == {p \in 1..Len(pages) : pages[p].owner = b}

\* C26: one browser, one page: on every browser at most one page is ever
\* created, and the page the Session holds is the only page of its browser.
C26_OnePagePerBrowser ==
  /\ \A b \in 1..Len(browsers) : Cardinality(PagesOf(b)) <= 1
  /\ (browser # 0 /\ browserPage # 0) => PagesOf(browser) = {browserPage}
====
